---------------------------- MODULE Spec2Model ----------------------------
(***************************************************************************)
(* A model of cpb::Lattice (cppcore/src/Lattice.cpp): the sublattice       *)
(* registry, the hopping-family registry, the offset, the derived copies   *)
(* (with_offset / with_min_neighbors) and the optimized-structure          *)
(* compiler.                                                               *)
(*                                                                         *)
(* Every member function is a pure operator from the lattice before the    *)
(* call to a record [lat, err, what]: the lattice after the call, the      *)
(* kind of exception thrown ("ok" when the call returns) and the name the  *)
(* exception message reports.  A throw leaves the lattice as the           *)
(* statements executed before the throw left it.                           *)
(***************************************************************************)
EXTENDS Integers, Sequences, FiniteSets, TLC

VARIABLES
    lats,           \* the Lattice objects in existence, by object identity
                    \* 1..Len(lats)
    dangling_eq     \* what the duplicate scan of the next add_hopping reads
                    \* through its dangling reference: whether the relative
                    \* index found there compares equal to the candidate's

vars == <<lats, dangling_eq>>

----------------------------------------------------------------------------
(* Bounds of the model.                                                    *)

MaxSubs == 3        \* sublattices per lattice
MaxFams == 2        \* hopping families per lattice
MaxTerms == 2       \* hopping terms per lattice, over all families
MaxObjs == 2        \* Lattice objects alive at once
IdMax == 2          \* numeric_limits<sub_id>::max() = numeric_limits<hop_id>::max(),
                    \* a narrow signed identifier type
SolveUlps == 1      \* rounding of the single-precision solve, in units in the
                    \* last place of a fractional coordinate

----------------------------------------------------------------------------
(* Values: complex numbers, matrices, 3-vectors.                           *)

\* A std::complex<double> <<re, im, tre, tim>>: the number re + i im in the
\* unit of the energies, plus (tre + i tim) * 1e-13 of that unit.  re and im
\* are coefficients of an ordinary size (integers below 1000 in magnitude),
\* tre and tim perturbations of the size Eigen's fuzzy predicates neglect
\* (below 1000 in magnitude as well), so that two numbers are equal exactly
\* when their tuples are.
Cx(re, im) == <<re, im, 0, 0>>
CxTiny(re, im, tre, tim) == <<re, im, tre, tim>>
Conj(z) == <<z[1], -z[2], z[3], -z[4]>>
CZero == Cx(0, 0)

\* Eigen: NumTraits<double>::dummy_precision() = 1e-12, the default argument
\* of isZero() and isUpperTriangular(), in units of 1e-13.
DummyPrecision == 10

\* |z|^2 for the ordinary part of z, and for its perturbation (in 1e-26).
Abs2(z) == z[1] * z[1] + z[2] * z[2]
Tiny2(z) == z[3] * z[3] + z[4] * z[4]

\* A MatrixXcd: its shape and its coefficients, 1-based.
Mat(r, c, f) == [rows |-> r, cols |-> c, coeff |-> f]
Idx(r, c) == (1..r) \X (1..c)
Mat11(z) == Mat(1, 1, [ij \in Idx(1, 1) |-> z])
\* MatrixXcd::Constant(1, 1, energy)
Constant11(z) == Mat11(z)

Zero3 == <<0, 0, 0>>
Neg3(d) == <<-d[1], -d[2], -d[3]>>
Abs(x) == IF x < 0 THEN -x ELSE x

\* Eigen: m.adjoint()
Adjoint(m) == Mat(m.cols, m.rows, [ij \in Idx(m.cols, m.rows) |-> Conj(m.coeff[<<ij[2], ij[1]>>])])

\* Eigen: m.diagonal().imag().isZero(): every coefficient x of the imaginary
\* part of the diagonal has isMuchSmallerThan(x, 1, prec), abs(x) <= prec.
DiagonalImagIsZero(m) ==
    \A i \in 1..(IF m.rows < m.cols THEN m.rows ELSE m.cols) :
        LET z == m.coeff[<<i, i>>]
        IN  z[2] = 0 /\ Abs(z[4]) <= DummyPrecision

\* Eigen: m.isUpperTriangular(): no coefficient below the diagonal has
\* abs(x) > maxAbsOnUpperPart * prec, the largest magnitude on or above the
\* diagonal times the precision.  A coefficient of ordinary size is never
\* that small against the coefficients of the model; a perturbation is when
\* its square is at most prec^2 times the largest square of the upper part
\* (whose own perturbations, 1e-13 of it, are left out of the product).
IsUpperTriangular(m) ==
    LET upper == {ij \in Idx(m.rows, m.cols) : ij[1] <= ij[2]}
        maxAbs2OnUpperPart ==
            IF upper = {} THEN 0
            ELSE LET top == CHOOSE ij \in upper :
                                \A kl \in upper : Abs2(m.coeff[kl]) <= Abs2(m.coeff[ij])
                 IN  Abs2(m.coeff[top])
    IN  \A ij \in Idx(m.rows, m.cols) :
            ij[1] > ij[2] =>
                LET x == m.coeff[ij]
                IN  /\ Abs2(x) = 0
                    /\ \/ Tiny2(x) = 0
                       \/ Tiny2(x) <= DummyPrecision * DummyPrecision * maxAbs2OnUpperPart

\* Eigen 3.3: a == b is cwiseEqual(b).all(), a coefficient-wise comparison
\* that asserts equal shapes.  With assertions compiled out the comparison
\* of two matrices of different shapes reads coefficients that need not
\* exist: either answer can come out.  The set of answers a build can give.
MatEqOutcomes(a, b) ==
    IF a.rows = b.rows /\ a.cols = b.cols THEN {a = b} ELSE {TRUE, FALSE}

----------------------------------------------------------------------------
(* Results of a call.                                                      *)

Ok(L) == [lat |-> L, err |-> "ok", what |-> ""]
Fail(L, e, w) == [lat |-> L, err |-> e, what |-> w]

\* m[k] = v on a map: inserts or overwrites.
Put(m, k, v) == [x \in (DOMAIN m) \cup {k} |-> IF x = k THEN v ELSE m[x]]

Size(m) == Cardinality(DOMAIN m)

\* static_cast<sub_id>(n) / static_cast<hop_id>(n): the narrowing cast to the
\* signed identifier type wraps around above its largest value.
ToId(n) == IF n > IdMax THEN n - 2 * (IdMax + 1) ELSE n


----------------------------------------------------------------------------
(* Construction and geometry.                                              *)

\* Lattice::Lattice(a1, a2, a3): a1, then a2 and a3 when they are not zero.
\* The members the header initialises: no sublattices, no hoppings, a zero
\* offset, min_neighbors = 1.
Lattice(a1, a2, a3) ==
    [vectors |-> <<a1>> \o (IF a2 # Zero3 THEN <<a2>> ELSE <<>>)
                        \o (IF a3 # Zero3 THEN <<a3>> ELSE <<>>),
     sublattices |-> <<>>,
     hoppings |-> <<>>,
     offset |-> Zero3,
     min_neighbors |-> 1]

ndim(L) == Len(L.vectors)
nsub(L) == Size(L.sublattices)

\* Determinant of the lattice matrix, whose columns are the primitive vectors
\* cut to ndim components, with column k replaced by p when k > 0.
LatticeDet(L, p, k) ==
    LET col(i) == IF i = k THEN p ELSE L.vectors[i]
    IN  IF ndim(L) = 1 THEN col(1)[1]
        ELSE IF ndim(L) = 2 THEN col(1)[1] * col(2)[2] - col(2)[1] * col(1)[2]
        ELSE   col(1)[1] * (col(2)[2] * col(3)[3] - col(3)[2] * col(2)[3])
             - col(2)[1] * (col(1)[2] * col(3)[3] - col(3)[2] * col(1)[3])
             + col(3)[1] * (col(1)[2] * col(2)[3] - col(2)[2] * col(1)[3])

\* Cartesian is a vector of floats.  A position is in units of 2^-24 of the
\* unit the primitive vectors are in: the integers from 2^23 to 2^24 are the
\* floats from 0.5 to 1, the even ones up to 2^25 the floats up to 2.
\* The float 0.55f is 9227469 * 2^-24 = 0.550000011920929, the float nearest
\* to 0.55 = 9227468.8 * 2^-24.
Float055 == 9227469

\* The rounding errors the single-precision QR solve can leave in the
\* solution for `position`, in units of 2^-24 per coordinate: none for the
\* zero vector, within SolveUlps otherwise.
SolveRoundings(L, position) ==
    IF position = Zero3 THEN {Zero3}
    ELSE {rd \in [1..3 -> (-SolveUlps)..SolveUlps] : \A i \in 1..3 : i > ndim(L) => rd[i] = 0}

\* Lattice::translate_coordinates(position): the solution v of
\* lattice_matrix * v = p as the solve computes it, as the pair of sequences
\* <<numerators, denominator>> (v[i] = num[i] / den, in units of 2^-24):
\* Cramer's rule for the solution, plus the rounding error of the solve;
\* zero in the dimensions above ndim.  The lattice matrices of the model are
\* regular.
translate_coordinates(L, position, rounding) ==
    LET den == LatticeDet(L, position, 0)
    IN  [num |-> [i \in 1..3 |-> IF i <= ndim(L)
                                 THEN LatticeDet(L, position, i) + rounding[i] * den
                                 ELSE 0],
         den |-> den]

\* An offset check that refuses the bound itself.
OffsetTooFar_AtBound(L, position, rounding) ==
    LET v == translate_coordinates(L, position, rounding)
    IN  \E i \in 1..3 : Abs(v.num[i]) >= Float055 * Abs(v.den)

\* any_of(translate_coordinates(position).array().abs() > 0.55f)
OffsetTooFar(L, position, rounding) ==
    LET v == translate_coordinates(L, position, rounding)
    IN  \E i \in 1..3 : Abs(v.num[i]) > Float055 * Abs(v.den)

\* Lattice::set_offset(position), `rounding` being the rounding error of the
\* solve in translate_coordinates.
set_offset(L, position, rounding) ==
    IF OffsetTooFar(L, position, rounding)
    THEN Fail(L, "invalid_offset", "")
    ELSE Ok([L EXCEPT !.offset = position])

----------------------------------------------------------------------------
(* The sublattice registry.                                                *)

\* Lattice::sublattice(name): the lookup by name.
has_sublattice(L, name) == name \in DOMAIN L.sublattices
sublattice(L, name) == L.sublattices[name]

\* A lookup by id that compares the alias_id of the records.
sublattice_by_id_OnAlias(L, id) ==
    {L.sublattices[n] : n \in {x \in DOMAIN L.sublattices : L.sublattices[x].alias_id = id}}

\* Lattice::sublattice(id): find_if over the registry on unique_id; the set
\* of records the scan can stop at (empty: out_of_range).
sublattice_by_id(L, id) ==
    {L.sublattices[n] : n \in {x \in DOMAIN L.sublattices : L.sublattices[x].unique_id = id}}

\* A registration whose capacity check admits one sublattice more.
register_sublattice_LateCapacity(L, name) ==
    IF name = "" THEN [err |-> "blank_name", id |-> 0]
    ELSE IF Size(L.sublattices) > IdMax + 1 THEN [err |-> "capacity", id |-> 0]
    ELSE IF name \in DOMAIN L.sublattices THEN [err |-> "already_exists", id |-> 0]
    ELSE [err |-> "ok", id |-> ToId(Size(L.sublattices))]

\* A registration that does not look for the name.
register_sublattice_NoNameCheck(L, name) ==
    IF name = "" THEN [err |-> "blank_name", id |-> 0]
    ELSE IF Size(L.sublattices) > IdMax THEN [err |-> "capacity", id |-> 0]
    ELSE [err |-> "ok", id |-> ToId(Size(L.sublattices))]

\* A registration that numbers the sublattices from one.
register_sublattice_FromOne(L, name) ==
    IF name = "" THEN [err |-> "blank_name", id |-> 0]
    ELSE IF Size(L.sublattices) > IdMax THEN [err |-> "capacity", id |-> 0]
    ELSE IF name \in DOMAIN L.sublattices THEN [err |-> "already_exists", id |-> 0]
    ELSE [err |-> "ok", id |-> ToId(Size(L.sublattices) + 1)]

\* Lattice::register_sublattice(name): [err, id].
register_sublattice(L, name) ==
    IF name = "" THEN [err |-> "blank_name", id |-> 0]
    ELSE IF Size(L.sublattices) > IdMax THEN [err |-> "capacity", id |-> 0]
    ELSE IF name \in DOMAIN L.sublattices THEN [err |-> "already_exists", id |-> 0]
    ELSE [err |-> "ok", id |-> ToId(Size(L.sublattices))]

\* An add_sublattice that registers the name before it looks at the matrix.
add_sublattice_NameFirst(L, name, position, onsite_energy) ==
    LET r == register_sublattice(L, name)
    IN  IF r.err # "ok" THEN Fail(L, r.err, name)
        ELSE IF onsite_energy.rows # onsite_energy.cols
        THEN Fail(L, "not_square", name)
        ELSE IF ~DiagonalImagIsZero(onsite_energy)
        THEN Fail(L, "complex_diagonal", name)
        ELSE IF ~IsUpperTriangular(onsite_energy) /\ onsite_energy # Adjoint(onsite_energy)
        THEN Fail(L, "not_triangular_or_hermitian", name)
        ELSE Ok([L EXCEPT !.sublattices =
                   Put(@, name, [position |-> position, energy |-> onsite_energy,
                                 unique_id |-> r.id, alias_id |-> r.id])])

\* Lattice::add_sublattice(name, position, MatrixXcd onsite_energy)
add_sublattice(L, name, position, onsite_energy) ==
    IF onsite_energy.rows # onsite_energy.cols
    THEN Fail(L, "not_square", name)
    ELSE IF ~DiagonalImagIsZero(onsite_energy)
    THEN Fail(L, "complex_diagonal", name)
    ELSE IF ~IsUpperTriangular(onsite_energy) /\ onsite_energy # Adjoint(onsite_energy)
    THEN Fail(L, "not_triangular_or_hermitian", name)
    ELSE LET r == register_sublattice(L, name)
         IN  IF r.err # "ok" THEN Fail(L, r.err, name)
             ELSE Ok([L EXCEPT !.sublattices =
                        Put(@, name, [position |-> position, energy |-> onsite_energy,
                                      unique_id |-> r.id, alias_id |-> r.id])])

\* An add_alias whose sublattice gets a scalar zero onsite energy.
add_alias_ScalarEnergy(L, alias_name, original_name, position) ==
    IF ~has_sublattice(L, original_name)
    THEN Fail(L, "sublattice_not_found", original_name)
    ELSE LET original == sublattice(L, original_name)
             alias_id == original.unique_id
             r == register_sublattice(L, alias_name)
         IN  IF r.err # "ok" THEN Fail(L, r.err, alias_name)
             ELSE Ok([L EXCEPT !.sublattices =
                        Put(@, alias_name, [position |-> position,
                                            energy |-> Constant11(CZero),
                                            unique_id |-> r.id, alias_id |-> alias_id])])

\* Lattice::add_alias(alias_name, original_name, position)
add_alias(L, alias_name, original_name, position) ==
    IF ~has_sublattice(L, original_name)
    THEN Fail(L, "sublattice_not_found", original_name)
    ELSE LET original == sublattice(L, original_name)
             alias_id == original.unique_id
             r == register_sublattice(L, alias_name)
         IN  IF r.err # "ok" THEN Fail(L, r.err, alias_name)
             ELSE Ok([L EXCEPT !.sublattices =
                        Put(@, alias_name, [position |-> position, energy |-> original.energy,
                                            unique_id |-> r.id, alias_id |-> alias_id])])

----------------------------------------------------------------------------
(* The hopping-family registry.                                            *)

has_hopping_family(L, name) == name \in DOMAIN L.hoppings
hopping_family(L, name) == L.hoppings[name]

\* Lattice::hopping_family(id): find_if over the registry on unique_id.
hopping_family_by_id(L, id) ==
    {L.hoppings[n] : n \in {x \in DOMAIN L.hoppings : L.hoppings[x].unique_id = id}}

\* A registration that takes the id from the size after the insertion.
register_hopping_energy_IdAfterInsert(L, name, energy) ==
    IF name = "" THEN Fail(L, "blank_name", name)
    ELSE IF Size(L.hoppings) > IdMax THEN Fail(L, "capacity", name)
    ELSE LET unique_id == ToId(Size(L.hoppings) + 1)
         IN  IF name \in DOMAIN L.hoppings
             THEN Fail(L, "already_exists", name)
             ELSE Ok([L EXCEPT !.hoppings =
                        Put(@, name, [energy |-> energy, unique_id |-> unique_id,
                                      terms |-> <<>>])])

\* A registration that assigns the family to the name, hoppings[name] = ...,
\* where the code inserts it.
register_hopping_energy_Assign(L, name, energy) ==
    IF name = "" THEN Fail(L, "blank_name", name)
    ELSE IF Size(L.hoppings) > IdMax THEN Fail(L, "capacity", name)
    ELSE LET unique_id == ToId(Size(L.hoppings))
             assigned == [L EXCEPT !.hoppings =
                            Put(@, name, [energy |-> energy, unique_id |-> unique_id,
                                          terms |-> <<>>])]
         IN  IF name \in DOMAIN L.hoppings
             THEN Fail(assigned, "already_exists", name)
             ELSE Ok(assigned)

\* Lattice::register_hopping_energy(name, MatrixXcd energy)
register_hopping_energy(L, name, energy) ==
    IF name = "" THEN Fail(L, "blank_name", name)
    ELSE IF Size(L.hoppings) > IdMax THEN Fail(L, "capacity", name)
    ELSE LET unique_id == ToId(Size(L.hoppings))
         IN  IF name \in DOMAIN L.hoppings
             THEN Fail(L, "already_exists", name)
             ELSE Ok([L EXCEPT !.hoppings =
                        Put(@, name, [energy |-> energy, unique_id |-> unique_id,
                                      terms |-> <<>>])])

\* The terms of every family.
AllTerms(L) ==
    UNION {{L.hoppings[n].terms[i] : i \in 1..Len(L.hoppings[n].terms)} : n \in DOMAIN L.hoppings}

\* A duplicate scan that forgets the conjugate.
IsDuplicateOf_NoConjugate(relative_index, from_id, to_id, h) ==
    <<relative_index, from_id, to_id>> = <<h.relative_index, h.from, h.to>>

\* The lambda of the duplicate scan: the candidate equals an existing term or
\* its conjugate.  The three tuples are tuples of references (std::tie).
\* `-h.relative_index` is a temporary, an Eigen expression object that
\* operator- returns const, so that std::tie binds a reference to it; it is
\* destroyed at the end of the declaration of existing_conjugate (line 96),
\* and the comparison of line 97 reads it through a dangling reference.  The
\* comparison of the tuples is reached when the candidate is not the
\* existing term, and compares the relative indices first: what it finds
\* there is whatever the build left in the place of the temporary
\* (dangling_eq), the ids are then compared as they are.
IsDuplicateOf(relative_index, from_id, to_id, h) ==
    LET candidate == <<relative_index, from_id, to_id>>
        existing == <<h.relative_index, h.from, h.to>>
    IN  candidate = existing \/ (dangling_eq /\ from_id = h.to /\ to_id = h.from)

\* A first check that is never met.
SameSite_Dropped(relative_index, from_sub, to_sub) == FALSE

\* The first check of add_hopping: a hopping from a sublattice to itself
\* inside one unit cell.
SameSite(relative_index, from_sub, to_sub) ==
    from_sub = to_sub /\ relative_index = Zero3

\* A size check that compares the rows only.
SizeMismatch_RowsOnly(from, to, hop_matrix) ==
    from.energy.rows # hop_matrix.rows

\* The size check of add_hopping.
SizeMismatch(from, to, hop_matrix) ==
    from.energy.rows # hop_matrix.rows \/ to.energy.cols # hop_matrix.cols

\* An add_hopping that resolves the names before its first check.
add_hopping_LookupFirst(L, relative_index, from_sub, to_sub, hopping_family_name) ==
    IF ~has_sublattice(L, from_sub) THEN Fail(L, "sublattice_not_found", from_sub)
    ELSE IF ~has_sublattice(L, to_sub) THEN Fail(L, "sublattice_not_found", to_sub)
    ELSE IF ~has_hopping_family(L, hopping_family_name)
    THEN Fail(L, "hopping_not_found", hopping_family_name)
    ELSE IF SameSite(relative_index, from_sub, to_sub)
    THEN Fail(L, "same_site", from_sub)
    ELSE LET from == sublattice(L, from_sub)
             to == sublattice(L, to_sub)
             hop_matrix == hopping_family(L, hopping_family_name).energy
             dup == \E h \in AllTerms(L) :
                        IsDuplicateOf(relative_index, from.unique_id, to.unique_id, h)
         IN  IF SizeMismatch(from, to, hop_matrix)
             THEN Fail(L, "size_mismatch", hopping_family_name)
             ELSE IF dup THEN Fail(L, "duplicate", hopping_family_name)
             ELSE Ok([L EXCEPT !.hoppings[hopping_family_name].terms =
                        Append(@, [relative_index |-> relative_index,
                                   from |-> from.unique_id, to |-> to.unique_id])])

\* Lattice::add_hopping(relative_index, from_sub, to_sub, hopping_family_name)
add_hopping(L, relative_index, from_sub, to_sub, hopping_family_name) ==
    IF SameSite(relative_index, from_sub, to_sub)
    THEN Fail(L, "same_site", from_sub)
    ELSE IF ~has_sublattice(L, from_sub) THEN Fail(L, "sublattice_not_found", from_sub)
    ELSE IF ~has_sublattice(L, to_sub) THEN Fail(L, "sublattice_not_found", to_sub)
    ELSE IF ~has_hopping_family(L, hopping_family_name)
    THEN Fail(L, "hopping_not_found", hopping_family_name)
    ELSE LET from == sublattice(L, from_sub)
             to == sublattice(L, to_sub)
             hop_matrix == hopping_family(L, hopping_family_name).energy
             dup == \E h \in AllTerms(L) :
                        IsDuplicateOf(relative_index, from.unique_id, to.unique_id, h)
         IN  IF SizeMismatch(from, to, hop_matrix)
             THEN Fail(L, "size_mismatch", hopping_family_name)
             ELSE IF dup THEN Fail(L, "duplicate", hopping_family_name)
             ELSE Ok([L EXCEPT !.hoppings[hopping_family_name].terms =
                        Append(@, [relative_index |-> relative_index,
                                   from |-> from.unique_id, to |-> to.unique_id])])

\* "__anonymous__{}"_format(hoppings.size())
AnonymousName(n) == "__anonymous__" \o ToString(n)

\* The find_if of the raw-energy add_hopping: the iterators the scan for a
\* family "with the same energy" can return, [found, name].  The registry is
\* an unordered map, so any family that compares equal can be the first one
\* met; the scan reaches the end only when no comparison has to answer true.
FindEnergy(L, energy) ==
    LET may == {n \in DOMAIN L.hoppings : TRUE \in MatEqOutcomes(L.hoppings[n].energy, energy)}
        must == {n \in DOMAIN L.hoppings : MatEqOutcomes(L.hoppings[n].energy, energy) = {TRUE}}
    IN  {[found |-> TRUE, name |-> n] : n \in may}
        \cup (IF must = {} THEN {[found |-> FALSE, name |-> ""]} ELSE {})

\* Lattice::add_hopping(relative_index, from_sub, to_sub, MatrixXcd energy),
\* with `it` the iterator its find_if returned.
add_hopping_energy(L, relative_index, from_sub, to_sub, energy, it) ==
    IF it.found
    THEN add_hopping(L, relative_index, from_sub, to_sub, it.name)
    ELSE LET name == AnonymousName(Size(L.hoppings))
             r == register_hopping_energy(L, name, energy)
         IN  IF r.err # "ok" THEN r
             ELSE add_hopping(r.lat, relative_index, from_sub, to_sub, name)

----------------------------------------------------------------------------
(* Derived lattices.                                                       *)

\* A with_offset that sets the offset of the receiver.
with_offset_InPlace(L, position, rounding) ==
    LET r == set_offset(L, position, rounding)
    IN  [lat |-> r.lat, ret |-> r.lat, err |-> r.err, what |-> r.what]

\* Lattice::with_offset(position): [lat: the receiver after the call,
\* ret: the lattice returned, err].
with_offset(L, position, rounding) ==
    LET new_lattice == L
        r == set_offset(new_lattice, position, rounding)
    IN  [lat |-> L, ret |-> r.lat, err |-> r.err, what |-> r.what]

\* Lattice::with_min_neighbors(number)
with_min_neighbors(L, number) ==
    LET new_lattice == L
    IN  [lat |-> L, ret |-> [new_lattice EXCEPT !.min_neighbors = number],
         err |-> "ok", what |-> ""]

----------------------------------------------------------------------------
(* The optimized-structure compiler.                                       *)

\* A default-constructed site of OptimizedLatticeStructure(nsub()).
EmptySite == [position |-> "unset", alias |-> "unset", hoppings |-> <<>>]

\* opt_structure[i].hoppings.push_back(h); a slot the array does not have
\* is not one of its elements.
PushHopping(s, i, h) ==
    IF i \in DOMAIN s THEN [s EXCEPT ![i].hoppings = Append(@, h)] ELSE s

\* A compiler whose conjugate entry keeps the relative index of the term.
RECURSIVE CompileTerms_SameIndex(_, _, _)
CompileTerms_SameIndex(s, terms, family_id) ==
    IF terms = <<>> THEN s
    ELSE LET term == Head(terms)
             s1 == PushHopping(s, term.from,
                       [relative_index |-> term.relative_index, to |-> term.to,
                        id |-> family_id, is_conjugate |-> FALSE])
             s2 == PushHopping(s1, term.to,
                       [relative_index |-> term.relative_index, to |-> term.from,
                        id |-> family_id, is_conjugate |-> TRUE])
         IN  CompileTerms_SameIndex(s2, Tail(terms), family_id)

\* The body of the loop over a family's terms.
RECURSIVE CompileTerms(_, _, _)
CompileTerms(s, terms, family_id) ==
    IF terms = <<>> THEN s
    ELSE LET term == Head(terms)
             s1 == PushHopping(s, term.from,
                       [relative_index |-> term.relative_index, to |-> term.to,
                        id |-> family_id, is_conjugate |-> FALSE])
             s2 == PushHopping(s1, term.to,
                       [relative_index |-> Neg3(term.relative_index), to |-> term.from,
                        id |-> family_id, is_conjugate |-> TRUE])
         IN  CompileTerms(s2, Tail(terms), family_id)

\* The loop over the hopping families, met in the order `order`.
RECURSIVE CompileFamilies(_, _, _)
CompileFamilies(s, L, order) ==
    IF order = <<>> THEN s
    ELSE LET hopping_family_ == L.hoppings[Head(order)]
         IN  CompileFamilies(CompileTerms(s, hopping_family_.terms, hopping_family_.unique_id),
                             L, Tail(order))

\* Lattice::optimized_structure(), the unordered map of the families being
\* iterated in the order `order`: the array indexed by 0..nsub-1.
optimized_structure(L, order) ==
    LET sites == [i \in 0..(nsub(L) - 1) |->
                    LET named == {n \in DOMAIN L.sublattices : L.sublattices[n].unique_id = i}
                    IN  IF named = {} THEN EmptySite
                        ELSE LET sub == L.sublattices[CHOOSE n \in named : TRUE]
                             IN  [position |-> sub.position, alias |-> sub.alias_id,
                                  hoppings |-> <<>>]]
    IN  CompileFamilies(sites, L, order)

\* The orders the families can be iterated in.
FamilyOrders(L) ==
    LET names == DOMAIN L.hoppings
    IN  {o \in [1..Cardinality(names) -> names] :
            \A i, j \in 1..Cardinality(names) : i # j => o[i] # o[j]}

\* Lattice::max_hoppings(): the std::accumulate over a site's compiled
\* hoppings, n + hopping_family(h.id).energy.cols(); the lookup by id throws
\* when its scan finds no family.
RECURSIVE AccumulateHoppings(_, _, _)
AccumulateHoppings(L, hops, n) ==
    IF hops = <<>> THEN [err |-> "ok", ret |-> n]
    ELSE LET found == hopping_family_by_id(L, Head(hops).id)
         IN  IF found = {} THEN [err |-> "hopping_not_found", ret |-> 0]
             ELSE AccumulateHoppings(L, Tail(hops),
                                     n + (CHOOSE h \in found : TRUE).energy.cols)

\* A count that starts from the orbital count of the site.
num_scalar_hoppings_WithDiagonal(L, s) ==
    LET found == sublattice_by_id(L, s.alias)
    IN  IF found = {} THEN [err |-> "sublattice_not_found", ret |-> 0]
        ELSE AccumulateHoppings(L, s.hoppings, (CHOOSE x \in found : TRUE).energy.cols)

\* The count of one site: the accumulate starts from
\* sublattice(s.alias).energy.cols() - 1.
num_scalar_hoppings(L, s) ==
    LET found == sublattice_by_id(L, s.alias)
    IN  IF found = {} THEN [err |-> "sublattice_not_found", ret |-> 0]
        ELSE AccumulateHoppings(L, s.hoppings, (CHOOSE x \in found : TRUE).energy.cols - 1)

\* The loop over the sites i, i+1, ... of the structure, with the running
\* maximum `result`.
RECURSIVE MaxOverSites(_, _, _, _)
MaxOverSites(L, sites, i, result) ==
    IF i \notin DOMAIN sites THEN [err |-> "ok", ret |-> result]
    ELSE LET n == num_scalar_hoppings(L, sites[i])
         IN  IF n.err # "ok" THEN n
             ELSE MaxOverSites(L, sites, i + 1, IF result < n.ret THEN n.ret ELSE result)

\* Lattice::max_hoppings(), the families being iterated in the order `order`.
max_hoppings(L, order) == MaxOverSites(L, optimized_structure(L, order), 0, 0)

----------------------------------------------------------------------------
(* Inputs of the calls.                                                    *)

\* Positions: the origin, (0.5, 0, 0) and (0.6f, 0, 0); (0.55f, 0, 0) and
\* the float after it; (0, 1.1f, 0), whose fractional coordinates in the
\* lattice of the model are -0.55f and 0.55f, and (0, -1.1f, 0).
P0 == <<0, 0, 0>>
P1 == <<8388608, 0, 0>>
P2 == <<10066330, 0, 0>>
P055 == <<Float055, 0, 0>>
P055Next == <<Float055 + 1, 0, 0>>
P110 == <<0, 2 * Float055, 0>>
P110Neg == <<0, -2 * Float055, 0>>
X1 == <<1, 0, 0>>

\* Onsite matrices: one orbital, two orbitals (diagonal), and a 1x2 matrix.
E1 == Mat11(Cx(0, 0))
E2 == Mat(2, 2, [ij \in Idx(2, 2) |-> IF ij[1] = ij[2] THEN Cx(1, 0) ELSE CZero])
ENonSquare == Mat(1, 2, [ij \in Idx(1, 2) |-> CZero])

\* The onsite matrix of a sublattice without orbitals, 0x0, and the hopping
\* matrix between two such sublattices.
E0 == Mat(0, 0, [ij \in Idx(0, 0) |-> CZero])
H00 == Mat(0, 0, [ij \in Idx(0, 0) |-> CZero])

\* Hopping matrices: 1x1, 2x1, 2x2.
H11 == Constant11(Cx(-1, 0))
H21 == Mat(2, 1, [ij \in Idx(2, 1) |-> Cx(-1, 0)])
H22 == Mat(2, 2, [ij \in Idx(2, 2) |-> Cx(0, 1)])

SubNames == {"", "A", "B"}
SubNames3 == {"", "A", "B", "C"}
Positions == {P0, P1}
OnsiteEnergies == {E1, E2, ENonSquare}
FamNames == {"", "t", "__anonymous__1"}
HopEnergies == {H11, H21}
Indices == {Zero3, X1, Neg3(X1)}
Offsets == {P0, P1, P2, P055, P055Next, P110, P110Neg}
Neighbors == {1, 2}

----------------------------------------------------------------------------
(* The calls as actions.                                                   *)

TotalTerms(L) == Cardinality(AllTerms(L))

\* The bounds of the model: a call is taken when the lattice it leaves is
\* within them.
Bounded(L) ==
    /\ Size(L.sublattices) <= MaxSubs
    /\ Size(L.hoppings) <= MaxFams
    /\ \A n \in DOMAIN L.hoppings : Len(L.hoppings[n].terms) <= MaxTerms
    /\ TotalTerms(L) <= MaxTerms

Objs == DOMAIN lats

\* A call on object o with outcome r.
Call(o, r) ==
    /\ Bounded(r.lat)
    /\ lats' = [lats EXCEPT ![o] = r.lat]
    /\ dangling_eq' \in BOOLEAN

\* A call on object o that returns a new lattice.
Derive(o, r) ==
    /\ lats' = (IF r.err = "ok" /\ Len(lats) < MaxObjs
                THEN Append([lats EXCEPT ![o] = r.lat], r.ret)
                ELSE [lats EXCEPT ![o] = r.lat])
    /\ dangling_eq' \in BOOLEAN

AddSublattice(names, positions, energies) ==
    \E o \in Objs, name \in names, position \in positions, e \in energies :
        Call(o, add_sublattice(lats[o], name, position, e))

AddAlias(names, positions) ==
    \E o \in Objs, alias_name \in names, original_name \in names, position \in positions :
        Call(o, add_alias(lats[o], alias_name, original_name, position))

RegisterHoppingEnergy(names, energies) ==
    \E o \in Objs, name \in names, e \in energies :
        Call(o, register_hopping_energy(lats[o], name, e))

AddHopping(indices, subs, families) ==
    \E o \in Objs, d \in indices, from_sub \in subs, to_sub \in subs, f \in families :
        Call(o, add_hopping(lats[o], d, from_sub, to_sub, f))

AddHoppingEnergy(indices, subs, energies) ==
    \E o \in Objs, d \in indices, from_sub \in subs, to_sub \in subs, e \in energies :
        \E it \in FindEnergy(lats[o], e) :
            Call(o, add_hopping_energy(lats[o], d, from_sub, to_sub, e, it))

SetOffset(offsets) ==
    \E o \in Objs, position \in offsets :
        \E rounding \in SolveRoundings(lats[o], position) :
            Call(o, set_offset(lats[o], position, rounding))

WithOffset(offsets) ==
    \E o \in Objs, position \in offsets :
        \E rounding \in SolveRoundings(lats[o], position) :
            Derive(o, with_offset(lats[o], position, rounding))

WithMinNeighbors(numbers) ==
    \E o \in Objs, number \in numbers :
        Derive(o, with_min_neighbors(lats[o], number))

----------------------------------------------------------------------------
(* Specifications.                                                         *)

\* A 2D lattice with primitive vectors (1, 0, 0) and (1, 2, 0).
Init ==
    /\ lats = <<Lattice(<<1, 0, 0>>, <<1, 2, 0>>, Zero3)>>
    /\ dangling_eq \in BOOLEAN

\* Spec: one lattice and the registration calls.  The calls draw their
\* relative index from {0, +x}; the claims try every index of Indices on the
\* states reached.
ActIndices == {Zero3, X1}

Next ==
    \/ AddSublattice(SubNames, {P0}, OnsiteEnergies)
    \/ AddAlias(SubNames, {P1})
    \/ RegisterHoppingEnergy(FamNames, HopEnergies)
    \/ AddHopping(ActIndices, SubNames, FamNames)
    \/ AddHoppingEnergy(ActIndices, SubNames, HopEnergies)

Spec == Init /\ [][Next]_vars

\* SpecSub: one lattice, the sublattice registry with three names and two
\* positions, and the registration of hopping families.
NextSub ==
    \/ AddSublattice(SubNames3, Positions, OnsiteEnergies)
    \/ AddAlias(SubNames3, Positions)
    \/ RegisterHoppingEnergy(FamNames, {H11})

SpecSub == Init /\ [][NextSub]_vars

\* SpecCopy: lattices derived with with_offset and with_min_neighbors, and
\* registrations and offsets on the receiver and on the lattices derived.
NextCopy ==
    \/ AddSublattice({"A"}, {P0}, {E1})
    \/ RegisterHoppingEnergy({"t"}, {H11})
    \/ AddHopping({X1}, {"A"}, {"t"})
    \/ SetOffset(Offsets)
    \/ WithOffset(Offsets)
    \/ WithMinNeighbors(Neighbors)

SpecCopy == Init /\ [][NextCopy]_vars

\* SpecMax: one lattice with a sublattice A of no or of two orbitals, a
\* sublattice B of one orbital, aliases and aliases of aliases, and hoppings
\* by family name and with a raw energy.
NextMax ==
    \/ AddSublattice({"A"}, {P0}, {E0, E2})
    \/ AddSublattice({"B"}, {P0}, {E1})
    \/ AddAlias({"A", "B", "C"}, {P1})
    \/ RegisterHoppingEnergy({"t"}, {H21, H22})
    \/ AddHopping({X1}, {"A", "B", "C"}, {"t"})
    \/ AddHoppingEnergy({X1}, {"A", "B"}, {H00, H11})

SpecMax == Init /\ [][NextMax]_vars

\* SpecCap: one lattice and registrations up to the capacity of the id
\* types.  The names are the blank name and one name more than a registry
\* can hold; the calls are not held to the bounds MaxSubs and MaxFams, the
\* capacity checks of the code bound the registries.
CapName(i) == "S" \o ToString(i)
CapNames == {""} \cup {CapName(i) : i \in 0..(IdMax + 1)}

Register(o, r) ==
    /\ lats' = [lats EXCEPT ![o] = r.lat]
    /\ dangling_eq' \in BOOLEAN

AddSublatticeCap ==
    \E o \in Objs, name \in CapNames :
        Register(o, add_sublattice(lats[o], name, P0, E1))

AddAliasCap ==
    \E o \in Objs, alias_name \in CapNames :
        Register(o, add_alias(lats[o], alias_name, CapName(0), P1))

RegisterHoppingEnergyCap ==
    \E o \in Objs, name \in CapNames :
        Register(o, register_hopping_energy(lats[o], name, H11))

NextCap ==
    \/ AddSublatticeCap
    \/ AddAliasCap
    \/ RegisterHoppingEnergyCap

SpecCap == Init /\ [][NextCap]_vars

----------------------------------------------------------------------------
(* The claims.  A claim about a call is stated on every reachable lattice: *)
(* the call is made on it with every argument of the sets below, and its   *)
(* outcome is the record the member function's operator gives.             *)

AnySub == SubNames3
AnyPosition == Positions
EComplexDiagonal == Mat11(Cx(0, 1))
ELowerTriangular == Mat(2, 2, [ij \in Idx(2, 2) |-> IF ij = <<2, 1>> THEN Cx(1, 0) ELSE CZero])
AnyOnsite == OnsiteEnergies \cup {EComplexDiagonal, ELowerTriangular}
AnyFam == FamNames \cup {"u", AnonymousName(0), AnonymousName(2)}
AnyHopEnergy == HopEnergies \cup {H22, Constant11(Cx(0, 1))}

\* The name a sublattice id was registered under.
NameOfSub(L, id) == CHOOSE n \in DOMAIN L.sublattices : L.sublattices[n].unique_id = id

\* R's families hold the terms L's families hold: no term was appended.
NoTermAppended(L, R) ==
    \A n \in DOMAIN R.hoppings :
        R.hoppings[n].terms = (IF n \in DOMAIN L.hoppings THEN L.hoppings[n].terms ELSE <<>>)

\* A call that throws leaves the lattice as it was.
FailKeeps(L, r) == r.err # "ok" => r.lat = L

NamingErrors == {"blank_name", "already_exists", "sublattice_not_found", "hopping_not_found"}

\* The iterator of a find_if that met no family with the energy.
NotFound == [found |-> FALSE, name |-> ""]

\* C1: every failing call of add_sublattice, add_alias,
\* register_hopping_energy, add_hopping (by family name or with a raw energy)
\* and set_offset leaves the lattice exactly in its pre-call state: the
\* sublattices, the hopping families and the offset.
C1_FailedCallKeepsLattice ==
    \A o \in Objs :
        LET L == lats[o]
        IN  /\ \A n \in AnySub, p \in AnyPosition, e \in AnyOnsite :
                  FailKeeps(L, add_sublattice(L, n, p, e))
            /\ \A n \in AnySub, m \in AnySub, p \in AnyPosition :
                  FailKeeps(L, add_alias(L, n, m, p))
            /\ \A f \in AnyFam, e \in AnyHopEnergy :
                  FailKeeps(L, register_hopping_energy(L, f, e))
            /\ \A d \in Indices, a \in AnySub, b \in AnySub, f \in AnyFam :
                  FailKeeps(L, add_hopping(L, d, a, b, f))
            /\ \A d \in Indices, a \in AnySub, b \in AnySub, e \in AnyHopEnergy :
                  \A it \in FindEnergy(L, e) :
                      FailKeeps(L, add_hopping_energy(L, d, a, b, e, it))
            /\ \A p \in Offsets : \A rd \in SolveRoundings(L, p) :
                  FailKeeps(L, set_offset(L, p, rd))

\* C1, the case it names: a raw-energy add_hopping that matches no family
\* and then fails one of the validations (zero-offset same-sublattice,
\* unknown sublattice, dimension mismatch, duplicate term) leaves the number
\* of hopping families unchanged.  Stated on the lattices that hold a term,
\* where each of the four validations can be the one that fails.
C1_FailedRawHoppingKeepsFamilies ==
    \A o \in Objs :
        LET L == lats[o]
        IN  AllTerms(L) # {} =>
                \A d \in Indices, a \in AnySub, b \in AnySub, e \in AnyHopEnergy :
                    LET r == add_hopping_energy(L, d, a, b, e, NotFound)
                    IN  (NotFound \in FindEnergy(L, e)
                         /\ r.err \in {"same_site", "sublattice_not_found",
                                       "size_mismatch", "duplicate"})
                            => Size(r.lat.hoppings) = Size(L.hoppings)

\* The calls C2 is about, for a stored term h = (d, A, B): the arguments
\* (d, A, B) and (-d, B, A).
RepeatsOf(L, h) ==
    {<<h.relative_index, NameOfSub(L, h.from), NameOfSub(L, h.to)>>,
     <<Neg3(h.relative_index), NameOfSub(L, h.to), NameOfSub(L, h.from)>>}

\* Two terms are equal or conjugate to each other.
Collide(g, h) ==
    \/ g = h
    \/ g.relative_index = Neg3(h.relative_index) /\ g.from = h.to /\ g.to = h.from

\* The places of the stored terms: family name and position in its list.
TermSlots(L) == {<<n, i>> : n \in DOMAIN L.hoppings, i \in 1..MaxTerms} \cap
                {s \in (DOMAIN L.hoppings) \X (1..MaxTerms) : s[2] <= Len(L.hoppings[s[1]].terms)}

\* No two stored terms, of one family or of two, are equal or conjugate.
NoTwoTermsCollide(L) ==
    \A s \in TermSlots(L), t \in TermSlots(L) :
        s # t => ~Collide(L.hoppings[s[1]].terms[s[2]], L.hoppings[t[1]].terms[t[2]])

\* Matrix m has the rows of sublattice a and the columns of sublattice b.
DimsFit(L, a, b, m) ==
    L.sublattices[a].energy.rows = m.rows /\ L.sublattices[b].energy.cols = m.cols

\* C2 as stated: for every stored term (d, A, B), add_hopping for (d, A, B)
\* and for (-d, B, A) fails with the duplicate error and appends no term,
\* whichever family, named or raw-energy, the call targets; and no two stored
\* terms are equal or conjugate.
C2_RepeatFailsAsDuplicate ==
    \A o \in Objs :
        LET L == lats[o]
        IN  /\ \A h \in AllTerms(L) : \A c \in RepeatsOf(L, h) :
                  /\ \A f \in DOMAIN L.hoppings :
                        LET r == add_hopping(L, c[1], c[2], c[3], f)
                        IN  r.err = "duplicate" /\ NoTermAppended(L, r.lat)
                  /\ \A e \in AnyHopEnergy : \A it \in FindEnergy(L, e) :
                        LET r == add_hopping_energy(L, c[1], c[2], c[3], e, it)
                        IN  r.err = "duplicate" /\ NoTermAppended(L, r.lat)
            /\ NoTwoTermsCollide(L)

C2_Witness ==
    LET L == lats[1]
    IN  \E h \in AllTerms(L) : \E f \in DOMAIN L.hoppings, g \in DOMAIN L.hoppings :
            /\ h.from # h.to
            /\ add_hopping(L, Neg3(h.relative_index), NameOfSub(L, h.to),
                           NameOfSub(L, h.from), f).err = "duplicate"
            /\ add_hopping(L, Neg3(h.relative_index), NameOfSub(L, h.to),
                           NameOfSub(L, h.from), g).err = "size_mismatch"

\* The elements of a sequence.
Elems(q) == {q[i] : i \in 1..Len(q)}

\* The number of compiled hoppings in the sites I of a structure.
RECURSIVE NumCompiled(_, _)
NumCompiled(s, I) ==
    IF I = {} THEN 0
    ELSE LET i == CHOOSE x \in I : TRUE
         IN  Len(s[i].hoppings) + NumCompiled(s, I \ {i})

\* The number of terms stored in the families F of a lattice.
RECURSIVE NumTerms(_, _)
NumTerms(L, F) ==
    IF F = {} THEN 0
    ELSE LET n == CHOOSE x \in F : TRUE
         IN  Len(L.hoppings[n].terms) + NumTerms(L, F \ {n})

\* The two compiled entries of a term t of the family with id fid.
Forward(t, fid) ==
    [relative_index |-> t.relative_index, to |-> t.to, id |-> fid, is_conjugate |-> FALSE]
Backward(t, fid) ==
    [relative_index |-> Neg3(t.relative_index), to |-> t.from, id |-> fid, is_conjugate |-> TRUE]

\* C3: optimized_structure() is an array of length nsub() in which, for every
\* stored term (d, A, B) of family F, site A holds (d, B, id(F), false) and
\* site B holds (-d, A, id(F), true), and there are no other entries: the
\* compiled hoppings of all sites are twice as many as the stored terms.
C3_OptimizedStructure ==
    \A o \in Objs :
        LET L == lats[o]
        IN  \A order \in FamilyOrders(L) :
                LET s == optimized_structure(L, order)
                IN  /\ DOMAIN s = 0..(nsub(L) - 1)
                    /\ \A n \in DOMAIN L.hoppings : \A t \in Elems(L.hoppings[n].terms) :
                          /\ t.from \in DOMAIN s /\ t.to \in DOMAIN s
                          /\ Forward(t, L.hoppings[n].unique_id) \in Elems(s[t.from].hoppings)
                          /\ Backward(t, L.hoppings[n].unique_id) \in Elems(s[t.to].hoppings)
                    /\ \A i \in DOMAIN s : \A e \in Elems(s[i].hoppings) :
                          \E n \in DOMAIN L.hoppings : \E t \in Elems(L.hoppings[n].terms) :
                              \/ t.from = i /\ e = Forward(t, L.hoppings[n].unique_id)
                              \/ t.to = i /\ e = Backward(t, L.hoppings[n].unique_id)
                    /\ NumCompiled(s, DOMAIN s) = 2 * NumTerms(L, DOMAIN L.hoppings)

\* C3's case: two sublattices and two families with a term each, one of them
\* from a sublattice to itself, so that one site holds both entries of a term.
C3_Witness ==
    LET L == lats[1]
    IN  /\ nsub(L) = 2
        /\ \E f \in DOMAIN L.hoppings, g \in DOMAIN L.hoppings :
              /\ f # g
              /\ \E t \in Elems(L.hoppings[f].terms) : t.from = t.to
              /\ \E t \in Elems(L.hoppings[g].terms) : t.from # t.to
        /\ \E order \in FamilyOrders(L) :
              \E i \in 0..1 : Len(optimized_structure(L, order)[i].hoppings) = 3

\* C4: a successful add_sublattice or add_alias stores the new sublattice
\* with unique_id equal to the number of sublattices registered before the
\* call; the unique_ids of the registered sublattices are pairwise distinct
\* and are exactly 0..nsub-1.
C4_DenseSublatticeIds ==
    \A o \in Objs :
        LET L == lats[o]
        IN  /\ \A n \in AnySub, p \in AnyPosition, e \in AnyOnsite :
                  LET r == add_sublattice(L, n, p, e)
                  IN  r.err = "ok" =>
                          /\ DOMAIN r.lat.sublattices = DOMAIN L.sublattices \cup {n}
                          /\ r.lat.sublattices[n].unique_id = nsub(L)
            /\ \A n \in AnySub, m \in AnySub, p \in AnyPosition :
                  LET r == add_alias(L, n, m, p)
                  IN  r.err = "ok" =>
                          /\ DOMAIN r.lat.sublattices = DOMAIN L.sublattices \cup {n}
                          /\ r.lat.sublattices[n].unique_id = nsub(L)
            /\ {L.sublattices[n].unique_id : n \in DOMAIN L.sublattices} = 0..(nsub(L) - 1)
            /\ \A n \in DOMAIN L.sublattices, m \in DOMAIN L.sublattices :
                  n # m => L.sublattices[n].unique_id # L.sublattices[m].unique_id

\* C4's case: three sublattices, one of them an alias, on a lattice where a
\* further registration fails and another one has succeeded.
C4_Witness ==
    LET L == lats[1]
    IN  /\ nsub(L) = 3
        /\ \E n \in DOMAIN L.sublattices :
              L.sublattices[n].alias_id # L.sublattices[n].unique_id
        /\ \E n \in DOMAIN L.sublattices : L.sublattices[n].unique_id = 2
        /\ add_sublattice(L, "A", P0, E1).err # "ok"

\* C5: a successful add_alias(alias_name, original_name, position) stores a
\* sublattice with the original's energy matrix, the newly allocated
\* unique_id and the alias_id of the sublattice named original_name, also
\* when the original is itself an alias; with original_name not registered
\* the call fails with a not-found error.
C5_AliasCarriesAliasIdOfOriginal ==
    \A o \in Objs :
        LET L == lats[o]
        IN  \A n \in AnySub, m \in AnySub, p \in AnyPosition :
                LET r == add_alias(L, n, m, p)
                IN  /\ m \notin DOMAIN L.sublattices => r.err = "sublattice_not_found"
                    /\ r.err = "ok" =>
                          /\ r.lat.sublattices[n].position = p
                          /\ r.lat.sublattices[n].energy = L.sublattices[m].energy
                          /\ r.lat.sublattices[n].unique_id = nsub(L)
                          /\ r.lat.sublattices[n].alias_id = L.sublattices[m].alias_id

\* The outcomes of the find_if in which a family is met only when its energy
\* is the given one: a comparison of matrices of different shapes answers
\* false.
ExactFind(L, e) == {it \in FindEnergy(L, e) : it.found => L.hoppings[it.name].energy = e}

\* The term (d, a, b) passes the four validations of add_hopping against the
\* energy matrix e.
PassesValidation(L, d, a, b, e) ==
    /\ ~(a = b /\ d = Zero3)
    /\ a \in DOMAIN L.sublattices /\ b \in DOMAIN L.sublattices
    /\ DimsFit(L, a, b, e)
    /\ \A h \in AllTerms(L) :
          ~Collide([relative_index |-> d, from |-> L.sublattices[a].unique_id,
                    to |-> L.sublattices[b].unique_id], h)

\* C6: add_hopping with a raw energy whose term passes the four validations
\* succeeds.  If a family has that energy, no family is created and the term
\* is appended to a family with that energy; otherwise one family is
\* registered with that energy and id equal to the previous family count,
\* and the term is appended to it.  Whatever family names were registered.
C6_RawEnergyHoppingSucceeds ==
    \A o \in Objs :
        LET L == lats[o]
        IN  \A d \in Indices, a \in AnySub, b \in AnySub, e \in AnyHopEnergy :
                PassesValidation(L, d, a, b, e) =>
                    \A it \in ExactFind(L, e) :
                        LET r == add_hopping_energy(L, d, a, b, e, it)
                            R == r.lat
                            term == [relative_index |-> d, from |-> L.sublattices[a].unique_id,
                                     to |-> L.sublattices[b].unique_id]
                            same == {n \in DOMAIN L.hoppings : L.hoppings[n].energy = e}
                            grown == {n \in DOMAIN R.hoppings :
                                        R.hoppings[n].terms # (IF n \in DOMAIN L.hoppings
                                                               THEN L.hoppings[n].terms ELSE <<>>)}
                        IN  /\ r.err = "ok"
                            /\ R.sublattices = L.sublattices
                            /\ \A n \in DOMAIN L.hoppings :
                                  /\ n \in DOMAIN R.hoppings
                                  /\ R.hoppings[n].energy = L.hoppings[n].energy
                                  /\ R.hoppings[n].unique_id = L.hoppings[n].unique_id
                            /\ \E n \in DOMAIN R.hoppings :
                                  /\ grown = {n}
                                  /\ R.hoppings[n].energy = e
                                  /\ R.hoppings[n].terms =
                                        Append(IF n \in DOMAIN L.hoppings
                                               THEN L.hoppings[n].terms ELSE <<>>, term)
                                  /\ IF same # {}
                                     THEN DOMAIN R.hoppings = DOMAIN L.hoppings
                                     ELSE /\ DOMAIN R.hoppings = DOMAIN L.hoppings \cup {n}
                                          /\ n \notin DOMAIN L.hoppings
                                          /\ R.hoppings[n].unique_id = Size(L.hoppings)

\* The receiver of with_offset and with_min_neighbors is left as it was,
\* and the lattice returned is the receiver with the offset, or the
\* min_neighbors, of the call.
DeriveKeepsReceiver ==
    \A o \in Objs :
        LET L == lats[o]
        IN  /\ \A p \in Offsets : \A rd \in SolveRoundings(L, p) :
                  LET r == with_offset(L, p, rd)
                  IN  /\ r.lat = L
                      /\ r.err = "ok" => r.ret = [L EXCEPT !.offset = p]
                      /\ r.err = (IF OffsetTooFar(L, p, rd) THEN "invalid_offset" ELSE "ok")
            /\ \A k \in Neighbors :
                  LET r == with_min_neighbors(L, k)
                  IN  r.lat = L /\ r.err = "ok" /\ r.ret = [L EXCEPT !.min_neighbors = k]

\* A step that returns a new lattice changes no lattice there was; any other
\* step changes one lattice at most, and no lattice goes away.
StepChangesOneLattice ==
    /\ Len(lats') >= Len(lats)
    /\ IF Len(lats') > Len(lats)
       THEN \A o \in DOMAIN lats : lats'[o] = lats[o]
       ELSE Cardinality({o \in DOMAIN lats : lats'[o] # lats[o]}) <= 1

\* C7: with_offset and with_min_neighbors never change the receiver, whether
\* they succeed or fail, and the lattice returned is an independent copy: a
\* later call on it leaves the receiver unchanged, and a later call on the
\* receiver leaves it unchanged.
C7_DerivedLatticeIsIndependent ==
    []DeriveKeepsReceiver /\ [][StepChangesOneLattice]_vars

\* C7's case: a lattice derived from the first one, with another offset, and
\* a registration made since on one of the two only.
C7_Witness ==
    /\ Len(lats) = 2
    /\ lats[1].offset # lats[2].offset
    /\ lats[1].sublattices # lats[2].sublattices
    /\ lats[1].hoppings # lats[2].hoppings
    /\ with_offset(lats[2], P2, Zero3).err = "invalid_offset"

\* The onsite matrix passes the three shape checks of add_sublattice.
ValidOnsite(e) ==
    /\ e.rows = e.cols
    /\ DiagonalImagIsZero(e)
    /\ IsUpperTriangular(e) \/ e = Adjoint(e)

\* C8 as stated: registering a name that is already registered fails with a
\* naming error and leaves the registry unchanged: add_sublattice and
\* add_alias with the name of a registered sublattice, and
\* register_hopping_energy with the name of a registered family.
C8_DuplicateNameIsNamingError ==
    \A o \in Objs :
        LET L == lats[o]
        IN  /\ \A n \in DOMAIN L.sublattices :
                  /\ \A p \in AnyPosition, e \in AnyOnsite :
                        LET r == add_sublattice(L, n, p, e)
                        IN  r.err \in NamingErrors /\ r.lat = L
                  /\ \A m \in AnySub, p \in AnyPosition :
                        LET r == add_alias(L, n, m, p)
                        IN  r.err \in NamingErrors /\ r.lat = L
            /\ \A f \in DOMAIN L.hoppings : \A e \in AnyHopEnergy :
                  LET r == register_hopping_energy(L, f, e)
                  IN  r.err \in NamingErrors /\ r.lat = L

\* C8 amended: registering a name that is already registered fails and
\* leaves the registry unchanged.  The error is the naming error (already
\* exists; not found for add_alias with an unknown original) when the onsite
\* matrix passes the shape checks and the registry is below capacity;
\* add_sublattice with a matrix that fails a shape check raises a shape
\* error, and a registry at capacity raises the capacity error.
C8_DuplicateNameFails ==
    \A o \in Objs :
        LET L == lats[o]
        IN  /\ \A n \in DOMAIN L.sublattices :
                  /\ \A p \in AnyPosition, e \in AnyOnsite :
                        LET r == add_sublattice(L, n, p, e)
                        IN  /\ r.lat = L
                            /\ IF ~ValidOnsite(e)
                               THEN r.err \in {"not_square", "complex_diagonal",
                                               "not_triangular_or_hermitian"}
                               ELSE r.err = (IF nsub(L) > IdMax THEN "capacity"
                                             ELSE "already_exists")
                  /\ \A m \in AnySub, p \in AnyPosition :
                        LET r == add_alias(L, n, m, p)
                        IN  /\ r.lat = L
                            /\ r.err = (IF m \notin DOMAIN L.sublattices
                                        THEN "sublattice_not_found"
                                        ELSE IF nsub(L) > IdMax THEN "capacity"
                                        ELSE "already_exists")
            /\ \A f \in DOMAIN L.hoppings : \A e \in AnyHopEnergy :
                  LET r == register_hopping_energy(L, f, e)
                  IN  /\ r.lat = L
                      /\ r.err = (IF Size(L.hoppings) > IdMax THEN "capacity"
                                  ELSE "already_exists")

\* C8's case: a registered sublattice and a registered family whose names
\* are registered again, with another position and another energy.
C8_Witness ==
    LET L == lats[1]
    IN  \E n \in DOMAIN L.sublattices, f \in DOMAIN L.hoppings :
            /\ L.sublattices[n].position = P0 /\ L.sublattices[n].energy = E1
            /\ add_sublattice(L, n, P1, E2).err = "already_exists"
            /\ add_alias(L, n, n, P1).err = "already_exists"
            /\ add_sublattice(L, n, P1, ENonSquare).err = "not_square"
            /\ L.hoppings[f].energy = H11
            /\ register_hopping_energy(L, f, H21).err = "already_exists"

\* C9: add_hopping with a zero relative index and from_sub = to_sub fails and
\* appends no term, by family name and with a raw energy, whatever the shape
\* of the energy and whether or not the names are registered; no stored term
\* has from = to and a zero relative index.
C9_SameSiteHoppingFails ==
    \A o \in Objs :
        LET L == lats[o]
        IN  /\ \A n \in AnySub :
                  /\ \A f \in AnyFam :
                        LET r == add_hopping(L, Zero3, n, n, f)
                        IN  r.err # "ok" /\ NoTermAppended(L, r.lat)
                  /\ \A e \in AnyHopEnergy : \A it \in FindEnergy(L, e) :
                        LET r == add_hopping_energy(L, Zero3, n, n, e, it)
                        IN  r.err # "ok" /\ NoTermAppended(L, r.lat)
            /\ \A h \in AllTerms(L) : ~(h.from = h.to /\ h.relative_index = Zero3)

\* C9's case: a sublattice that holds a hopping to itself in the next cell,
\* in a family whose matrix fits it, and for which the hopping inside the
\* cell is refused.
C9_Witness ==
    LET L == lats[1]
    IN  \E n \in DOMAIN L.sublattices, f \in DOMAIN L.hoppings :
            /\ \E h \in Elems(L.hoppings[f].terms) :
                  h.from = L.sublattices[n].unique_id /\ h.to = h.from
            /\ add_hopping(L, Zero3, n, n, f).err = "same_site"
            /\ add_hopping_energy(L, Zero3, n, n, L.hoppings[f].energy,
                                  [found |-> TRUE, name |-> f]).err = "same_site"

\* C10 as stated: add_hopping fails with the dimension-mismatch error and
\* appends no term whenever the family's matrix has other rows than the
\* source sublattice has orbitals or other columns than the destination has;
\* every stored term (d, A, B) of family F has rows(F.energy) = orbitals(A)
\* and cols(F.energy) = orbitals(B).
C10_SizeMismatchIsTheError ==
    \A o \in Objs :
        LET L == lats[o]
        IN  /\ \A d \in Indices, a \in DOMAIN L.sublattices, b \in DOMAIN L.sublattices,
                 f \in DOMAIN L.hoppings :
                  ~DimsFit(L, a, b, L.hoppings[f].energy) =>
                      LET r == add_hopping(L, d, a, b, f)
                      IN  r.err = "size_mismatch" /\ NoTermAppended(L, r.lat)
            /\ \A f \in DOMAIN L.hoppings : \A h \in Elems(L.hoppings[f].terms) :
                  DimsFit(L, NameOfSub(L, h.from), NameOfSub(L, h.to), L.hoppings[f].energy)

\* C10 amended: add_hopping fails and appends no term whenever the family's
\* matrix has other rows than the source sublattice has orbitals or other
\* columns than the destination has: with the dimension-mismatch error,
\* unless the relative index is zero and from_sub = to_sub, which the first
\* check refuses with its own error.  Every stored term fits its family.
C10_SizeMismatchFails ==
    \A o \in Objs :
        LET L == lats[o]
        IN  /\ \A d \in Indices, a \in DOMAIN L.sublattices, b \in DOMAIN L.sublattices,
                 f \in DOMAIN L.hoppings :
                  ~DimsFit(L, a, b, L.hoppings[f].energy) =>
                      LET r == add_hopping(L, d, a, b, f)
                      IN  /\ r.err = (IF a = b /\ d = Zero3 THEN "same_site"
                                      ELSE "size_mismatch")
                          /\ NoTermAppended(L, r.lat)
            /\ \A f \in DOMAIN L.hoppings : \A h \in Elems(L.hoppings[f].terms) :
                  DimsFit(L, NameOfSub(L, h.from), NameOfSub(L, h.to), L.hoppings[f].energy)

\* C10's case: two one-orbital sublattices and a 2x1 family, refused between
\* them, on a lattice that holds a term.
C10_Witness ==
    LET L == lats[1]
    IN  \E a \in DOMAIN L.sublattices, b \in DOMAIN L.sublattices, f \in DOMAIN L.hoppings :
            /\ a # b
            /\ L.sublattices[a].energy.rows = 1 /\ L.sublattices[b].energy.rows = 1
            /\ L.hoppings[f].energy.rows = 2 /\ L.hoppings[f].energy.cols = 1
            /\ AllTerms(L) # {}
            /\ add_hopping(L, X1, a, b, f).err = "size_mismatch"

----------------------------------------------------------------------------
(* The shape checks of add_sublattice.                                     *)

\* Onsite matrices for the shape checks: Hermitian and upper-triangular 2x2
\* matrices with a complex coefficient off the diagonal; a diagonal with an
\* imaginary part of 1e-13 and of 2e-12; a coefficient of 1e-13 below the
\* diagonal of a matrix with zero above it; a 1x2 matrix with an imaginary
\* first coefficient; an imaginary diagonal over a lower-triangular matrix.
EHermitian ==
    Mat(2, 2, [ij \in Idx(2, 2) |-> IF ij[1] = ij[2] THEN Cx(1, 0)
                                    ELSE IF ij = <<1, 2>> THEN Cx(0, 1) ELSE Cx(0, -1)])
EUpper ==
    Mat(2, 2, [ij \in Idx(2, 2) |-> IF ij[1] = ij[2] THEN Cx(1, 0)
                                    ELSE IF ij = <<1, 2>> THEN Cx(0, 1) ELSE CZero])
ETinyImag == Mat11(CxTiny(0, 0, 0, 1))
ESmallImag == Mat11(CxTiny(0, 0, 0, 20))
ETinyLower ==
    Mat(2, 2, [ij \in Idx(2, 2) |-> IF ij[1] = ij[2] THEN Cx(1, 0)
                                    ELSE IF ij = <<2, 1>> THEN CxTiny(0, 0, 1, 0) ELSE CZero])
ENonSquareComplex == Mat(1, 2, [ij \in Idx(1, 2) |-> Cx(0, 1)])
EComplexLower ==
    Mat(2, 2, [ij \in Idx(2, 2) |-> IF ij[1] = ij[2] THEN Cx(0, 1)
                                    ELSE IF ij = <<2, 1>> THEN Cx(1, 0) ELSE CZero])

ShapeOnsite == AnyOnsite \cup {EHermitian, EUpper, ETinyImag, ESmallImag, ETinyLower,
                               ENonSquareComplex, EComplexLower}

\* The properties of a matrix as the claim words them: no imaginary part on
\* the diagonal, nothing below the diagonal, equal to the conjugate transpose.
ExactRealDiagonal(m) ==
    \A i \in 1..(IF m.rows < m.cols THEN m.rows ELSE m.cols) :
        m.coeff[<<i, i>>][2] = 0 /\ m.coeff[<<i, i>>][4] = 0
ExactUpperTriangular(m) ==
    \A ij \in Idx(m.rows, m.cols) : ij[1] > ij[2] => m.coeff[ij] = CZero
ExactHermitian(m) == m.rows = m.cols /\ m = Adjoint(m)

\* The error of the first shape check the matrix fails, "ok" when it passes
\* them all: read off the matrices one by one.
ShapeError(e) ==
    CASE e \in {ENonSquare, ENonSquareComplex} -> "not_square"
      [] e \in {EComplexDiagonal, ESmallImag, EComplexLower} -> "complex_diagonal"
      [] e = ELowerTriangular -> "not_triangular_or_hermitian"
      [] e \in {E1, E2, EHermitian, EUpper, ETinyImag, ETinyLower} -> "ok"

\* The error of the registration of name n on L, "ok" when it is accepted.
NameError(L, n) ==
    IF n = "" THEN "blank_name"
    ELSE IF nsub(L) > IdMax THEN "capacity"
    ELSE IF n \in DOMAIN L.sublattices THEN "already_exists"
    ELSE "ok"

\* C11 as stated: add_sublattice with a non-blank unregistered name fails,
\* registering nothing, when the matrix is non-square, has a diagonal entry
\* with a non-zero imaginary part, or is neither upper-triangular nor equal
\* to its conjugate transpose, and succeeds otherwise; the checks come in the
\* order square, real diagonal, triangular-or-Hermitian, before the checks
\* of the name.
C11_ShapeDecidesAddSublattice ==
    \A o \in Objs :
        LET L == lats[o]
        IN  \A n \in AnySub, p \in AnyPosition, e \in ShapeOnsite :
                LET r == add_sublattice(L, n, p, e)
                    square == e.rows = e.cols
                    shaped == ExactUpperTriangular(e) \/ ExactHermitian(e)
                    bad == ~square \/ ~ExactRealDiagonal(e) \/ ~shaped
                IN  /\ (n # "" /\ n \notin DOMAIN L.sublattices) =>
                          IF bad THEN r.err # "ok" /\ r.lat = L
                          ELSE r.err = "ok" /\ n \in DOMAIN r.lat.sublattices
                    /\ ~square => r.err = "not_square"
                    /\ (square /\ ~ExactRealDiagonal(e)) => r.err = "complex_diagonal"
                    /\ (square /\ ExactRealDiagonal(e) /\ ~shaped)
                          => r.err = "not_triangular_or_hermitian"

\* C11 amended: add_sublattice fails, registering nothing, when the matrix is
\* non-square, has a diagonal entry with an imaginary part above 1e-12 in
\* magnitude, or is neither upper-triangular to that precision nor equal to
\* its conjugate transpose; the checks come in this order, before the checks
\* of the name.  With a matrix that passes them and a non-blank unregistered
\* name the call succeeds and stores the record when the registry is below
\* capacity, and fails with the capacity error when it is full.
C11_ShapeChecksComeFirst ==
    \A o \in Objs :
        LET L == lats[o]
        IN  \A n \in AnySub, p \in AnyPosition, e \in ShapeOnsite :
                LET r == add_sublattice(L, n, p, e)
                IN  /\ r.err = (IF ShapeError(e) # "ok" THEN ShapeError(e) ELSE NameError(L, n))
                    /\ r.err # "ok" => r.lat = L
                    /\ r.err = "ok" =>
                          r.lat = [L EXCEPT !.sublattices =
                                     Put(@, n, [position |-> p, energy |-> e,
                                                unique_id |-> nsub(L), alias_id |-> nsub(L)])]

\* C11's case: a lattice with one sublattice on which a new name is accepted
\* with a Hermitian matrix and refused with the matrices that fail a check,
\* and the registered name is refused for the matrix before the name.
C11_Witness ==
    LET L == lats[1]
    IN  /\ nsub(L) = 1 /\ "A" \in DOMAIN L.sublattices /\ "B" \notin DOMAIN L.sublattices
        /\ add_sublattice(L, "B", P0, EHermitian).err = "ok"
        /\ add_sublattice(L, "B", P0, ENonSquareComplex).err = "not_square"
        /\ add_sublattice(L, "B", P0, EComplexLower).err = "complex_diagonal"
        /\ add_sublattice(L, "B", P0, ELowerTriangular).err = "not_triangular_or_hermitian"
        /\ add_sublattice(L, "A", P0, ENonSquare).err = "not_square"
        /\ add_sublattice(L, "A", P0, E1).err = "already_exists"

----------------------------------------------------------------------------
(* The offset.                                                             *)

\* A fractional coordinate of v is above 0.55 in magnitude; 0.55 is
\* 46137344 / 5 units of 2^-24.
Exceeds055(v) == \E i \in 1..3 : 5 * Abs(v.num[i]) > 46137344 * Abs(v.den)

\* A fractional coordinate of v is above the float 0.55f in magnitude.
ExceedsFloat055(v) == \E i \in 1..3 : Abs(v.num[i]) > 9227469 * Abs(v.den)

\* C12 as stated: set_offset(position) stores position as the offset when
\* every fractional coordinate of position that translate_coordinates
\* returns is at most 0.55 in magnitude, and fails and leaves the offset
\* unchanged when one of them is above 0.55; the stored offset of every
\* lattice has its fractional coordinates within [-0.55, 0.55].
C12_OffsetWithin055 ==
    \A o \in Objs :
        LET L == lats[o]
        IN  /\ \A p \in Offsets : \A rd \in SolveRoundings(L, p) :
                  LET r == set_offset(L, p, rd)
                  IN  IF Exceeds055(translate_coordinates(L, p, rd))
                      THEN r.err # "ok" /\ r.lat.offset = L.offset
                      ELSE r.err = "ok" /\ r.lat.offset = p
            /\ \E rd \in SolveRoundings(L, L.offset) :
                  ~Exceeds055(translate_coordinates(L, L.offset, rd))

\* C12 amended: set_offset(position) stores position as the offset, and
\* changes nothing else, when every fractional coordinate of position that
\* translate_coordinates returns is at most 0.55f in magnitude, the float
\* nearest to 0.55 (0.550000012), and fails and leaves the lattice unchanged
\* when one of them is above 0.55f; the stored offset of every lattice,
\* after any set_offset and with_offset calls, is a position that
\* translate_coordinates gave coordinates within [-0.55f, 0.55f].
C12_OffsetWithinFloat055 ==
    \A o \in Objs :
        LET L == lats[o]
        IN  /\ \A p \in Offsets : \A rd \in SolveRoundings(L, p) :
                  LET r == set_offset(L, p, rd)
                  IN  IF ExceedsFloat055(translate_coordinates(L, p, rd))
                      THEN r.err = "invalid_offset" /\ r.lat = L
                      ELSE r.err = "ok" /\ r.lat = [L EXCEPT !.offset = p]
            /\ \E rd \in SolveRoundings(L, L.offset) :
                  ~ExceedsFloat055(translate_coordinates(L, L.offset, rd))

\* C12's case: a lattice whose offset is at the bound in both fractional
\* coordinates, derived from one whose offset is (0.55f, 0, 0), and on which
\* the float after 0.55f is refused.
C12_Witness ==
    /\ Len(lats) = 2
    /\ lats[1].offset = P055
    /\ lats[2].offset = P110Neg
    /\ set_offset(lats[2], P055Next, Zero3).err = "invalid_offset"
    /\ set_offset(lats[2], P055, Zero3).err = "ok"
    /\ set_offset(lats[2], P055, <<1, 0, 0>>).err = "invalid_offset"

----------------------------------------------------------------------------
(* The order of the validations of add_hopping.                            *)

\* The error of the earliest validation the call add_hopping(d, a, b, f)
\* violates on L, in the order zero-offset same-sublattice, from_sub, to_sub,
\* family, dimensions, duplicate; "ok" when it violates none.
EarliestViolation(L, d, a, b, f) ==
    IF a = b /\ d = Zero3 THEN "same_site"
    ELSE IF a \notin DOMAIN L.sublattices THEN "sublattice_not_found"
    ELSE IF b \notin DOMAIN L.sublattices THEN "sublattice_not_found"
    ELSE IF f \notin DOMAIN L.hoppings THEN "hopping_not_found"
    ELSE IF ~DimsFit(L, a, b, L.hoppings[f].energy) THEN "size_mismatch"
    ELSE IF \E h \in AllTerms(L) :
                Collide([relative_index |-> d, from |-> L.sublattices[a].unique_id,
                         to |-> L.sublattices[b].unique_id], h)
         THEN "duplicate"
    ELSE "ok"

\* The name the not-found error reports: the first unknown one of from_sub,
\* to_sub and the family.
FirstUnknown(L, a, b, f) ==
    IF a \notin DOMAIN L.sublattices THEN a
    ELSE IF b \notin DOMAIN L.sublattices THEN b
    ELSE f

\* C13: add_hopping by family name applies its validations in the order
\* (1) zero-offset same-sublattice, (2) name resolution of from_sub, then
\* to_sub, then the family, (3) dimension mismatch, (4) duplicate term: a
\* call that violates one of the first three raises the error of the
\* earliest one it violates, whatever the later ones would find, and the
\* not-found error names the first unknown name; the duplicate error is
\* raised by calls that pass the first three only, and by every such call
\* for a term that is stored.
C13_EarliestViolationIsRaised ==
    \A o \in Objs :
        LET L == lats[o]
        IN  \A d \in Indices, a \in AnySub, b \in AnySub, f \in AnyFam :
                LET r == add_hopping(L, d, a, b, f)
                    earliest == EarliestViolation(L, d, a, b, f)
                IN  IF earliest \notin {"duplicate", "ok"}
                    THEN /\ r.err = earliest
                         /\ r.err \in {"sublattice_not_found", "hopping_not_found"}
                               => r.what = FirstUnknown(L, a, b, f)
                    ELSE /\ r.err \in {"duplicate", "ok"}
                         /\ [relative_index |-> d, from |-> L.sublattices[a].unique_id,
                             to |-> L.sublattices[b].unique_id] \in AllTerms(L)
                               => r.err = "duplicate"

\* C13's case: a lattice with a stored term between sublattices of one
\* orbital and a family of another shape, where a call violates the last two
\* validations, one the first two, and one the last one alone.
C13_Witness ==
    LET L == lats[1]
    IN  \E h \in AllTerms(L) : \E f \in DOMAIN L.hoppings, g \in DOMAIN L.hoppings :
            LET a == NameOfSub(L, h.from)
                b == NameOfSub(L, h.to)
            IN  /\ add_hopping(L, h.relative_index, a, b, f).err = "duplicate"
                /\ ~DimsFit(L, a, b, L.hoppings[g].energy)
                /\ add_hopping(L, h.relative_index, a, b, g).err = "size_mismatch"
                /\ add_hopping(L, Zero3, "C", "C", "u").err = "same_site"
                /\ add_hopping(L, h.relative_index, "C", b, "u").err = "sublattice_not_found"
                /\ add_hopping(L, h.relative_index, a, b, "u").err = "hopping_not_found"

----------------------------------------------------------------------------
(* The neighbor lists of the optimized structure.                          *)

C14_Witness ==
    LET L == lats[1]
    IN  \E order \in FamilyOrders(L) :
            LET s == optimized_structure(L, order)
            IN  \E i \in DOMAIN s :
                    \E j \in 1..Len(s[i].hoppings), k \in 1..Len(s[i].hoppings),
                       l \in 1..Len(s[i].hoppings) :
                        /\ s[i].hoppings[j].to = i /\ ~s[i].hoppings[j].is_conjugate
                        /\ s[i].hoppings[k].to = i /\ s[i].hoppings[k].is_conjugate
                        /\ s[i].hoppings[j].relative_index
                              = Neg3(s[i].hoppings[k].relative_index)
                        /\ s[i].hoppings[l].to # i
                        /\ s[i].hoppings[l].id # s[i].hoppings[j].id

----------------------------------------------------------------------------
(* The registries only grow.                                               *)

\* Lattice R holds every sublattice and every family of L as L holds them,
\* and the terms of each family of L as a prefix of its terms in R.
AppendOnly(L, R) ==
    /\ \A n \in DOMAIN L.sublattices :
          n \in DOMAIN R.sublattices /\ R.sublattices[n] = L.sublattices[n]
    /\ \A f \in DOMAIN L.hoppings :
          /\ f \in DOMAIN R.hoppings
          /\ R.hoppings[f].energy = L.hoppings[f].energy
          /\ R.hoppings[f].unique_id = L.hoppings[f].unique_id
          /\ Len(R.hoppings[f].terms) >= Len(L.hoppings[f].terms)
          /\ SubSeq(R.hoppings[f].terms, 1, Len(L.hoppings[f].terms)) = L.hoppings[f].terms

\* Every call on a lattice, successful or failed, leaves its registries
\* grown at most.
CallsAppendOnly ==
    \A o \in Objs :
        LET L == lats[o]
        IN  /\ \A n \in AnySub, p \in AnyPosition, e \in ShapeOnsite :
                  AppendOnly(L, add_sublattice(L, n, p, e).lat)
            /\ \A n \in AnySub, m \in AnySub, p \in AnyPosition :
                  AppendOnly(L, add_alias(L, n, m, p).lat)
            /\ \A f \in AnyFam, e \in AnyHopEnergy :
                  AppendOnly(L, register_hopping_energy(L, f, e).lat)
            /\ \A d \in Indices, a \in AnySub, b \in AnySub, f \in AnyFam :
                  AppendOnly(L, add_hopping(L, d, a, b, f).lat)
            /\ \A d \in Indices, a \in AnySub, b \in AnySub, e \in AnyHopEnergy :
                  \A it \in FindEnergy(L, e) :
                      AppendOnly(L, add_hopping_energy(L, d, a, b, e, it).lat)
            /\ \A p \in Offsets : \A rd \in SolveRoundings(L, p) :
                  /\ AppendOnly(L, set_offset(L, p, rd).lat)
                  /\ AppendOnly(L, with_offset(L, p, rd).lat)
            /\ \A k \in Neighbors : AppendOnly(L, with_min_neighbors(L, k).lat)

\* A step leaves every lattice there is with its registries grown at most.
StepAppendsOnly ==
    \A o \in DOMAIN lats : o \in DOMAIN lats' /\ AppendOnly(lats[o], lats'[o])

\* C15: the registries are append-only under every operation, successful or
\* failed: a registered sublattice keeps its position, energy, unique_id and
\* alias_id and is never removed, a registered family keeps its energy and
\* unique_id and is never removed, and the term list of a family before an
\* operation is a prefix of its term list after it.
C15_RegistriesAreAppendOnly ==
    []CallsAppendOnly /\ [][StepAppendsOnly]_vars

\* C15's case: two sublattices and a family with two terms, on which calls
\* with a registered sublattice name and a registered family name fail.
C15_Witness ==
    LET L == lats[1]
    IN  /\ nsub(L) = 2
        /\ \E f \in DOMAIN L.hoppings :
              /\ Len(L.hoppings[f].terms) = 2
              /\ register_hopping_energy(L, f, H22).err = "already_exists"
        /\ \E n \in DOMAIN L.sublattices :
              add_sublattice(L, n, P1, EHermitian).err = "already_exists"

----------------------------------------------------------------------------
(* The ids of the hopping families.                                        *)

\* C16: a successful register_hopping_energy, called directly or through the
\* raw-energy add_hopping, stores the family with unique_id equal to the
\* number of families before the call and an empty term list; the
\* unique_ids of the families are pairwise distinct and are exactly
\* 0..nfamilies-1, after successful and failed calls alike.
C16_DenseFamilyIds ==
    \A o \in Objs :
        LET L == lats[o]
        IN  /\ \A f \in AnyFam, e \in AnyHopEnergy :
                  LET r == register_hopping_energy(L, f, e)
                  IN  r.err = "ok" =>
                          /\ f \notin DOMAIN L.hoppings
                          /\ r.lat = [L EXCEPT !.hoppings =
                                        Put(@, f, [energy |-> e,
                                                   unique_id |-> Size(L.hoppings),
                                                   terms |-> <<>>])]
            /\ \A d \in Indices, a \in AnySub, b \in AnySub, e \in AnyHopEnergy :
                  \A it \in FindEnergy(L, e) :
                      LET R == add_hopping_energy(L, d, a, b, e, it).lat
                          new == DOMAIN R.hoppings \ DOMAIN L.hoppings
                      IN  /\ Cardinality(new) <= 1
                          /\ it.found => new = {}
                          /\ \A f \in new :
                                /\ R.hoppings[f].energy = e
                                /\ R.hoppings[f].unique_id = Size(L.hoppings)
                                /\ Len(R.hoppings[f].terms) <= 1
            /\ {L.hoppings[f].unique_id : f \in DOMAIN L.hoppings} = 0..(Size(L.hoppings) - 1)
            /\ \A f \in DOMAIN L.hoppings, g \in DOMAIN L.hoppings :
                  f # g => L.hoppings[f].unique_id # L.hoppings[g].unique_id

\* C16's case: a family registered by name, with no term, and a family that
\* a raw-energy add_hopping registered, with its term, on a lattice where a
\* further raw-energy add_hopping registers no family.
C16_Witness ==
    LET L == lats[1]
    IN  /\ DOMAIN L.hoppings = {"t", AnonymousName(1)}
        /\ L.hoppings["t"].unique_id = 0 /\ L.hoppings["t"].terms = <<>>
        /\ L.hoppings[AnonymousName(1)].unique_id = 1
        /\ Len(L.hoppings[AnonymousName(1)].terms) = 1
        /\ \E e \in AnyHopEnergy : NotFound \in FindEnergy(L, e)

----------------------------------------------------------------------------
(* Lookups.                                                                *)

\* The values of the id types sub_id and hop_id.
IdValues == (-(IdMax + 1))..IdMax

\* C17: sublattice(id) finds a record iff 0 <= id < nsub and
\* hopping_family(id) finds one iff 0 <= id < number of families; the record
\* found is the only record with that unique_id, and otherwise the scan
\* ends at end(), the not-found error.  A lookup by name finds a record iff
\* the name is registered.  The lookups are functions of the lattice.
C17_LookupByIdIsDenseIndexing ==
    \A o \in Objs :
        LET L == lats[o]
        IN  /\ \A id \in IdValues :
                  /\ sublattice_by_id(L, id) # {} <=> (0 <= id /\ id < nsub(L))
                  /\ Cardinality(sublattice_by_id(L, id)) <= 1
                  /\ \A s \in sublattice_by_id(L, id) :
                        /\ s.unique_id = id
                        /\ \E n \in DOMAIN L.sublattices : sublattice(L, n) = s
                  /\ hopping_family_by_id(L, id) # {} <=> (0 <= id /\ id < Size(L.hoppings))
                  /\ Cardinality(hopping_family_by_id(L, id)) <= 1
                  /\ \A h \in hopping_family_by_id(L, id) :
                        /\ h.unique_id = id
                        /\ \E f \in DOMAIN L.hoppings : hopping_family(L, f) = h
            /\ \A n \in AnySub :
                  /\ has_sublattice(L, n) <=> n \in {x \in AnySub : \E id \in IdValues :
                                                   \E s \in sublattice_by_id(L, id) :
                                                       x \in DOMAIN L.sublattices /\ L.sublattices[x] = s}
                  /\ has_sublattice(L, n) => sublattice_by_id(L, sublattice(L, n).unique_id) = {sublattice(L, n)}
            /\ \A f \in AnyFam :
                  /\ has_hopping_family(L, f) <=> f \in {x \in AnyFam : \E id \in IdValues :
                                                       \E h \in hopping_family_by_id(L, id) :
                                                           x \in DOMAIN L.hoppings /\ L.hoppings[x] = h}
                  /\ has_hopping_family(L, f) => hopping_family_by_id(L, hopping_family(L, f).unique_id) = {hopping_family(L, f)}

\* C17's case: a sublattice, an alias of it and two families; the ids 0 and
\* 1 are found and the ids 2 and -1 are not.
C17_Witness ==
    LET L == lats[1]
    IN  /\ nsub(L) = 2 /\ Size(L.hoppings) = 2
        /\ \E n \in DOMAIN L.sublattices : L.sublattices[n].alias_id # L.sublattices[n].unique_id
        /\ sublattice_by_id(L, 1) # {} /\ hopping_family_by_id(L, 1) # {}
        /\ sublattice_by_id(L, 2) = {} /\ hopping_family_by_id(L, 2) = {}
        /\ sublattice_by_id(L, -1) = {} /\ hopping_family_by_id(L, -1) = {}

----------------------------------------------------------------------------
(* The capacity of the registries.                                         *)

\* The next dense id of a registry would exceed the largest id.
Exhausted(registry) == Size(registry) > IdMax

\* The ids of a registry lie in 0..IdMax, no two entries share one, and the
\* registry holds at most IdMax + 1 entries.
IdsWithinType(registry) ==
    /\ \A n \in DOMAIN registry : registry[n].unique_id \in 0..IdMax
    /\ \A n \in DOMAIN registry, m \in DOMAIN registry :
          n # m => registry[n].unique_id # registry[m].unique_id
    /\ Size(registry) <= IdMax + 1

\* Every call that can register leaves the ids within the type.
RegistrationsKeepIds(L) ==
    /\ IdsWithinType(L.sublattices) /\ IdsWithinType(L.hoppings)
    /\ \A n \in CapNames :
          /\ register_sublattice(L, n).err = "ok" =>
                register_sublattice(L, n).id = Size(L.sublattices)
          /\ IdsWithinType(add_sublattice(L, n, P0, E1).lat.sublattices)
          /\ \A m \in CapNames : IdsWithinType(add_alias(L, n, m, P0).lat.sublattices)
          /\ IdsWithinType(register_hopping_energy(L, n, H11).lat.hoppings)
    /\ \A e \in AnyHopEnergy : \A it \in FindEnergy(L, e) :
          IdsWithinType(add_hopping_energy(L, X1, CapName(0), CapName(0), e, it).lat.hoppings)

\* C18 as stated: register_sublattice and register_hopping_energy fail with
\* the capacity error exactly when the next dense id would exceed the
\* largest value of the id type, whatever the name; the ids lie in
\* 0..IdMax, no two entries share one and a registry holds at most
\* IdMax + 1 entries.
C18_CapacityErrorIffExhausted ==
    \A o \in Objs :
        LET L == lats[o]
        IN  /\ \A n \in CapNames :
                  /\ register_sublattice(L, n).err = "capacity" <=> Exhausted(L.sublattices)
                  /\ register_hopping_energy(L, n, H11).err = "capacity" <=> Exhausted(L.hoppings)
            /\ RegistrationsKeepIds(L)

\* C18, amended: for a name that is not blank, register_sublattice and
\* register_hopping_energy fail with the capacity error exactly when the
\* next dense id would exceed the largest value of the id type (a blank name
\* fails with the blank-name error also then); the ids lie in 0..IdMax, no
\* two entries share one and a registry holds at most IdMax + 1 entries.
C18_CapacityErrorIffExhaustedAndNamed ==
    \A o \in Objs :
        LET L == lats[o]
        IN  /\ \A n \in CapNames :
                  /\ register_sublattice(L, n).err = "capacity"
                        <=> (n # "" /\ Exhausted(L.sublattices))
                  /\ register_hopping_energy(L, n, H11).err = "capacity"
                        <=> (n # "" /\ Exhausted(L.hoppings))
                  /\ (n = "" /\ Exhausted(L.sublattices)) =>
                        register_sublattice(L, n).err = "blank_name"
                  /\ (n = "" /\ Exhausted(L.hoppings)) =>
                        register_hopping_energy(L, n, H11).err = "blank_name"
            /\ RegistrationsKeepIds(L)

\* C18's case: both registries hold IdMax + 1 entries, a name that is not
\* registered is refused by both with the capacity error, and so is the
\* raw-energy add_hopping that would register a family.
C18_Witness ==
    LET L == lats[1]
    IN  /\ Size(L.sublattices) = IdMax + 1 /\ Size(L.hoppings) = IdMax + 1
        /\ \E n \in CapNames :
              /\ n # "" /\ n \notin DOMAIN L.sublattices /\ n \notin DOMAIN L.hoppings
              /\ register_sublattice(L, n).err = "capacity"
              /\ add_sublattice(L, n, P0, E1).err = "capacity"
              /\ register_hopping_energy(L, n, H11).err = "capacity"
        /\ add_hopping_energy(L, X1, CapName(0), CapName(0), H21, NotFound).err = "capacity"

----------------------------------------------------------------------------
(* max_hoppings.                                                           *)

\* The sum, over the compiled hoppings k, k+1, ... of a site's list, of the
\* column count of the energy matrix of the hopping's family.
RECURSIVE SumOfFamilyCols(_, _, _)
SumOfFamilyCols(L, hops, k) ==
    IF k > Len(hops) THEN 0
    ELSE LET f == CHOOSE n \in DOMAIN L.hoppings : L.hoppings[n].unique_id = hops[k].id
         IN  L.hoppings[f].energy.cols + SumOfFamilyCols(L, hops, k + 1)

\* The count of site i as the claim words it: the orbital count of the
\* site's sublattice, less one, plus the sum over the site's list.
SiteCount(L, sites, i) ==
    L.sublattices[NameOfSub(L, i)].energy.cols - 1 + SumOfFamilyCols(L, sites[i].hoppings, 1)

\* The maximum of the counts over the sites; 0 when there is no site.
MaxSiteCount(L, sites) ==
    IF DOMAIN sites = {} THEN 0
    ELSE LET top == CHOOSE i \in DOMAIN sites :
                        \A j \in DOMAIN sites : SiteCount(L, sites, j) <= SiteCount(L, sites, i)
         IN  SiteCount(L, sites, top)

\* C19 as stated: max_hoppings() returns the maximum, over the sites of
\* optimized_structure(), of the orbital count of the site's sublattice less
\* one plus the sum over the site's compiled hoppings of the column count of
\* the family's energy matrix, and 0 for a lattice without sublattices.
C19_MaxHoppingsIsMaxOverSites ==
    \A o \in Objs :
        LET L == lats[o]
        IN  \A order \in FamilyOrders(L) :
                LET r == max_hoppings(L, order)
                IN  /\ r.err = "ok"
                    /\ r.ret = MaxSiteCount(L, optimized_structure(L, order))

\* C19, amended: max_hoppings() returns the larger of 0 and the maximum over
\* the sites of that count (the count of a site whose sublattice has no
\* orbital is negative); it returns 0 for a lattice without sublattices, and
\* the same value whatever the order the families are iterated in.
C19_MaxHoppingsIsMaxOverSitesOrZero ==
    \A o \in Objs :
        LET L == lats[o]
        IN  \A order \in FamilyOrders(L) :
                LET r == max_hoppings(L, order)
                    m == MaxSiteCount(L, optimized_structure(L, order))
                IN  /\ r.err = "ok"
                    /\ r.ret = (IF m < 0 THEN 0 ELSE m)
                    /\ nsub(L) = 0 => r.ret = 0
                    /\ \A other \in FamilyOrders(L) : max_hoppings(L, other) = r

\* C19's case: a sublattice with two orbitals, one with one orbital and a
\* 2x1 hopping between them; the two sites count 2 and 1.
C19_Witness ==
    LET L == lats[1]
    IN  /\ nsub(L) = 2
        /\ \E order \in FamilyOrders(L) :
              LET sites == optimized_structure(L, order)
              IN  /\ {SiteCount(L, sites, 0), SiteCount(L, sites, 1)} = {1, 2}
                  /\ \E i \in DOMAIN sites : Len(sites[i].hoppings) = 1
                  /\ max_hoppings(L, order) = [err |-> "ok", ret |-> 2]

----------------------------------------------------------------------------
(* Referential integrity of the stored ids.                                *)

\* The ids a lattice stores refer to registered sublattices, and an alias
\* has the energy matrix of the sublattice its alias_id refers to.
IdsRefer(L) ==
    /\ \A h \in AllTerms(L) :
          /\ h.from \in 0..(nsub(L) - 1) /\ sublattice_by_id(L, h.from) # {}
          /\ h.to \in 0..(nsub(L) - 1) /\ sublattice_by_id(L, h.to) # {}
    /\ \A n \in DOMAIN L.sublattices :
          /\ L.sublattices[n].alias_id \in 0..(nsub(L) - 1)
          /\ sublattice_by_id(L, L.sublattices[n].alias_id) # {}
          /\ \A s \in sublattice_by_id(L, L.sublattices[n].alias_id) :
                s.energy = L.sublattices[n].energy

\* optimized_structure() writes every sublattice to a slot of its array and
\* pushes two entries for every term, none to a slot the array does not
\* have; the lookups of max_hoppings() find their records.
CompilesWithinArray(L) ==
    \A order \in FamilyOrders(L) :
        LET sites == optimized_structure(L, order)
        IN  /\ DOMAIN sites = 0..(nsub(L) - 1)
            /\ \A i \in DOMAIN sites : sites[i] # EmptySite
            /\ NumCompiled(sites, DOMAIN sites) = 2 * NumTerms(L, DOMAIN L.hoppings)
            /\ \A i \in DOMAIN sites :
                  /\ sublattice_by_id(L, sites[i].alias) # {}
                  /\ \A k \in 1..Len(sites[i].hoppings) :
                        /\ hopping_family_by_id(L, sites[i].hoppings[k].id) # {}
                        /\ sites[i].hoppings[k].to \in DOMAIN sites
            /\ max_hoppings(L, order).err = "ok"

\* C20: in every state the registration calls reach, and in the lattice
\* every registration call leaves behind, failed calls included, the from
\* and to ids of the terms and the alias_ids of the sublattices are
\* unique_ids of registered sublattices, in 0..nsub-1, and the sublattice an
\* alias_id refers to has the energy matrix of the referring sublattice;
\* optimized_structure() indexes within its array and the lookups of
\* max_hoppings() do not fail.
C20_StoredIdsRefer ==
    \A o \in Objs :
        LET L == lats[o]
        IN  /\ IdsRefer(L) /\ CompilesWithinArray(L)
            /\ \A n \in AnySub, e \in {E0, E2} :
                  IdsRefer(add_sublattice(L, n, P0, e).lat)
            /\ \A n \in AnySub, m \in AnySub :
                  IdsRefer(add_alias(L, n, m, P1).lat)
            /\ \A d \in ActIndices, a \in AnySub, b \in AnySub :
                  /\ \A f \in {"t", AnonymousName(0)} : IdsRefer(add_hopping(L, d, a, b, f).lat)
                  /\ \A e \in {H00, H11, H21} : \A it \in FindEnergy(L, e) :
                        IdsRefer(add_hopping_energy(L, d, a, b, e, it).lat)

\* C20's case: a sublattice with two orbitals, an alias of it and an alias
\* of the alias, and a hopping term from the original to the last alias.
C20_Witness ==
    LET L == lats[1]
    IN  /\ nsub(L) = 3 /\ DOMAIN L.sublattices = {"A", "B", "C"}
        /\ L.sublattices["A"].energy = E2
        /\ L.sublattices["B"].alias_id = L.sublattices["A"].unique_id
        /\ L.sublattices["C"].alias_id = L.sublattices["B"].unique_id
        /\ L.sublattices["C"].alias_id # L.sublattices["C"].unique_id
        /\ \E h \in AllTerms(L) :
              h.from = L.sublattices["A"].unique_id /\ h.to = L.sublattices["C"].unique_id
        /\ \E order \in FamilyOrders(L) : max_hoppings(L, order).err = "ok"

============================================================================
